---- MODULE Spec2Model ----
(***************************************************************************)
(* The trip planning tools of src/planning_tools.py: the module-level      *)
(* store trip_details and the eight tool functions that read and write it. *)
(*                                                                         *)
(* Python strings that the code transforms (lower, split, strip, title)    *)
(* are sequences of one-character strings, so that the transformations are *)
(* computed character by character.  Strings that are only carried around  *)
(* (names, descriptions, messages) are TLA+ strings.  A Python dict is the *)
(* sequence of its [key, val] entries in insertion order; a Python list is *)
(* a sequence.  The rupee sign of the price ranges is written "Rs".        *)
(***************************************************************************)
EXTENDS Integers, Sequences, FiniteSets, TLC

VARIABLES
    trip_details,   \* the store
    ret,            \* the tool last called and what it returned
    dest_called,    \* history: get_destination_recommendations has been called
    overwrote       \* history: the last call stored under a key already present

vars == <<trip_details, ret, dest_called, overwrote>>

(***************************************************************************)
(* Bounds of the model.                                                    *)
(***************************************************************************)
\* budgets offered to the tools in Spec are the multiples of 10000 up to
\* MaxBudgetUnits * 10000 (and the ones listed in Budgets)
MaxBudgetUnits == 2

\* budgets offered in SpecDestination are the multiples of 5000 up to
\* MaxBudgetSteps * 5000 (and the last budget of each tier)
MaxBudgetSteps == 9

(***************************************************************************)
(* Character strings.                                                      *)
(***************************************************************************)
s_any == <<"a", "n", "y">>
s_beach == <<"b", "e", "a", "c", "h">>
s_historical == <<"h", "i", "s", "t", "o", "r", "i", "c", "a", "l">>
s_hill_station == <<"h", "i", "l", "l", "_", "s", "t", "a", "t", "i", "o", "n">>
s_spiritual == <<"s", "p", "i", "r", "i", "t", "u", "a", "l">>
s_adventure == <<"a", "d", "v", "e", "n", "t", "u", "r", "e">>
s_delhi == <<"d", "e", "l", "h", "i">>
s_mumbai == <<"m", "u", "m", "b", "a", "i">>
s_jaipur == <<"j", "a", "i", "p", "u", "r">>
s_varanasi == <<"v", "a", "r", "a", "n", "a", "s", "i">>
s_amritsar == <<"a", "m", "r", "i", "t", "s", "a", "r">>
s_goa == <<"g", "o", "a">>
s_leh == <<"l", "e", "h">>
s_udaipur == <<"u", "d", "a", "i", "p", "u", "r">>
s_pondicherry == <<"p", "o", "n", "d", "i", "c", "h", "e", "r", "r", "y">>
s_manali == <<"m", "a", "n", "a", "l", "i">>
s_leh_ladakh == <<"l", "e", "h", "-", "l", "a", "d", "a", "k", "h">>

\* argument strings a caller passes
s_Beach == <<"B", "e", "a", "c", "h">>
s_desert == <<"d", "e", "s", "e", "r", "t">>
s_Delhi == <<"D", "e", "l", "h", "i">>
s_Mumbai == <<"M", "u", "m", "b", "a", "i">>
s_Pune == <<"P", "u", "n", "e">>
s_Goa == <<"G", "o", "a">>
s_GOA_India == <<" ", "G", "O", "A", " ", ",", "I", "n", "d", "i", "a">>
s_Jaipur_Rajasthan == <<"J", "a", "i", "p", "u", "r", ",", " ", "R", "a", "j", "a", "s", "t", "h", "a", "n">>
s_Leh_Ladakh == <<"L", "e", "h", "-", "L", "a", "d", "a", "k", "h">>

\* the lower-case letter of each upper-case letter, and the reverse
ToLower ==
    [A |-> "a", B |-> "b", C |-> "c", D |-> "d", E |-> "e", F |-> "f", G |-> "g", H |-> "h", I |-> "i",
     J |-> "j", K |-> "k", L |-> "l", M |-> "m", N |-> "n", O |-> "o", P |-> "p", Q |-> "q", R |-> "r",
     S |-> "s", T |-> "t", U |-> "u", V |-> "v", W |-> "w", X |-> "x", Y |-> "y", Z |-> "z"]

ToUpper ==
    [a |-> "A", b |-> "B", c |-> "C", d |-> "D", e |-> "E", f |-> "F", g |-> "G", h |-> "H", i |-> "I",
     j |-> "J", k |-> "K", l |-> "L", m |-> "M", n |-> "N", o |-> "O", p |-> "P", q |-> "Q", r |-> "R",
     s |-> "S", t |-> "T", u |-> "U", v |-> "V", w |-> "W", x |-> "X", y |-> "Y", z |-> "Z"]

Whitespace == {" ", "\t", "\n", "\r"}

IsAlpha(c) == c \in DOMAIN ToLower \/ c \in DOMAIN ToUpper

LowerChar(c) == IF c \in DOMAIN ToLower THEN ToLower[c] ELSE c

UpperChar(c) == IF c \in DOMAIN ToUpper THEN ToUpper[c] ELSE c

RECURSIVE lower(_)
\* str.lower()
lower(s) == IF s = <<>> THEN <<>> ELSE <<LowerChar(Head(s))>> \o lower(Tail(s))

RECURSIVE split_first(_)
\* str.split(',')[0]: the part before the first comma, the whole string when
\* there is none
split_first(s) ==
    IF s = <<>> \/ Head(s) = "," THEN <<>> ELSE <<Head(s)>> \o split_first(Tail(s))

RECURSIVE lstrip(_)
\* leading whitespace removed
lstrip(s) == IF s # <<>> /\ Head(s) \in Whitespace THEN lstrip(Tail(s)) ELSE s

RECURSIVE rstrip(_)
\* trailing whitespace removed
rstrip(s) ==
    IF s # <<>> /\ s[Len(s)] \in Whitespace THEN rstrip(SubSeq(s, 1, Len(s) - 1)) ELSE s

\* str.strip(): leading and trailing whitespace removed
strip(s) == rstrip(lstrip(s))

RECURSIVE TitleFrom(_, _)
\* the characters of s from position i on, title-cased
TitleFrom(s, i) ==
    IF i > Len(s)
    THEN <<>>
    ELSE << IF i > 1 /\ IsAlpha(s[i - 1]) THEN LowerChar(s[i]) ELSE UpperChar(s[i]) >>
         \o TitleFrom(s, i + 1)

\* str.title(): a letter is upper-cased after a non-letter (or at the start)
\* and lower-cased after a letter
title(s) == TitleFrom(s, 1)

\* the key taken without strip(): blanks around the segment stay in the key
destination_key_unstripped(destination) == split_first(lower(destination))

\* destination.lower().split(',')[0].strip()
destination_key(destination) == strip(split_first(lower(destination)))

(***************************************************************************)
(* Python dicts: entries [key, val] in insertion order.                    *)
(***************************************************************************)
DictHas(d, k) == \E i \in DOMAIN d : d[i].key = k

DictGet(d, k) == d[CHOOSE i \in DOMAIN d : d[i].key = k].val

DictKeys(d) == {d[i].key : i \in DOMAIN d}

\* d[k] = v: an existing key keeps its position, a new key is appended
DictSet(d, k, v) ==
    IF DictHas(d, k)
    THEN [i \in DOMAIN d |-> IF d[i].key = k THEN [key |-> k, val |-> v] ELSE d[i]]
    ELSE Append(d, [key |-> k, val |-> v])

\* the value of trip_details["destinations"]: a list of records, or the dict
\* update_trip_details stored there
PyList(items) == [kind |-> "list", items |-> items]

PyDict(items) == [kind |-> "dict", items |-> items]

\* bool(x) of a list or dict
Truthy(x) == Len(x) > 0

RECURSIVE Concat(_)
\* list.extend over a sequence of lists
Concat(lists) == IF lists = <<>> THEN <<>> ELSE Head(lists) \o Concat(Tail(lists))

(***************************************************************************)
(* The reference tables, each rebuilt by its tool on every call.            *)
(***************************************************************************)
\* destinations_db: tier -> category -> destinations
destinations_db ==
    [budget_low |-> <<
         [key |-> s_beach, val |-> <<
             [name |-> "Pondicherry", description |-> "French colonial charm with beautiful beaches", estimated_cost |-> 12000],
             [name |-> "Varkala, Kerala", description |-> "Cliff-top beaches and Ayurvedic treatments", estimated_cost |-> 10000] >>],
         [key |-> s_historical, val |-> <<
             [name |-> "Jaipur, Rajasthan", description |-> "Pink City with magnificent forts and palaces", estimated_cost |-> 12000],
             [name |-> "Varanasi, Uttar Pradesh", description |-> "Ancient spiritual city on the Ganges", estimated_cost |-> 8000],
             [name |-> "Hampi, Karnataka", description |-> "UNESCO World Heritage ruins", estimated_cost |-> 10000] >>],
         [key |-> s_hill_station, val |-> <<
             [name |-> "Mcleodganj, Himachal Pradesh", description |-> "Dalai Lama's residence with Tibetan culture", estimated_cost |-> 11000],
             [name |-> "Rishikesh, Uttarakhand", description |-> "Yoga capital with river rafting", estimated_cost |-> 9000] >>],
         [key |-> s_spiritual, val |-> <<
             [name |-> "Amritsar, Punjab", description |-> "Golden Temple and Sikh heritage", estimated_cost |-> 10000],
             [name |-> "Pushkar, Rajasthan", description |-> "Sacred lake and camel fair", estimated_cost |-> 8000] >>] >>,
     budget_medium |-> <<
         [key |-> s_beach, val |-> <<
             [name |-> "Goa", description |-> "Beaches, nightlife, and Portuguese heritage", estimated_cost |-> 25000],
             [name |-> "Andaman Islands", description |-> "Pristine beaches and water sports", estimated_cost |-> 28000] >>],
         [key |-> s_historical, val |-> <<
             [name |-> "Udaipur, Rajasthan", description |-> "City of Lakes with royal palaces", estimated_cost |-> 22000],
             [name |-> "Mysore, Karnataka", description |-> "Royal heritage and silk sarees", estimated_cost |-> 18000] >>],
         [key |-> s_hill_station, val |-> <<
             [name |-> "Manali, Himachal Pradesh", description |-> "Adventure sports and apple orchards", estimated_cost |-> 20000],
             [name |-> "Munnar, Kerala", description |-> "Tea plantations and misty mountains", estimated_cost |-> 19000] >>],
         [key |-> s_adventure, val |-> <<
             [name |-> "Leh-Ladakh", description |-> "High-altitude desert with stunning landscapes", estimated_cost |-> 30000] >>] >>,
     budget_high |-> <<
         [key |-> s_beach, val |-> <<
             [name |-> "Lakshadweep", description |-> "Coral islands with luxury resorts", estimated_cost |-> 45000] >>],
         [key |-> s_hill_station, val |-> <<
             [name |-> "Kashmir Valley", description |-> "Paradise on Earth with houseboats", estimated_cost |-> 40000],
             [name |-> "Darjeeling, West Bengal", description |-> "Tea gardens and Himalayan views", estimated_cost |-> 35000] >>],
         [key |-> s_adventure, val |-> <<
             [name |-> "Spiti Valley", description |-> "Remote high-altitude desert", estimated_cost |-> 38000] >>] >>]

\* flight_db: departure -> destination -> flight
flight_db == <<
    [key |-> s_delhi, val |-> <<
        [key |-> s_jaipur, val |-> [price |-> 3500, duration |-> "1h 15m", airlines |-> <<"IndiGo", "SpiceJet">>]],
        [key |-> s_varanasi, val |-> [price |-> 4500, duration |-> "1h 30m", airlines |-> <<"Air India", "IndiGo">>]],
        [key |-> s_amritsar, val |-> [price |-> 4000, duration |-> "1h 20m", airlines |-> <<"IndiGo", "Vistara">>]],
        [key |-> s_goa, val |-> [price |-> 8000, duration |-> "2h 30m", airlines |-> <<"IndiGo", "GoAir">>]],
        [key |-> s_leh, val |-> [price |-> 12000, duration |-> "1h 45m", airlines |-> <<"Air India", "Vistara">>]],
        [key |-> s_udaipur, val |-> [price |-> 5500, duration |-> "1h 40m", airlines |-> <<"IndiGo", "SpiceJet">>]],
        [key |-> s_pondicherry, val |-> [price |-> 7000, duration |-> "2h 15m", airlines |-> <<"IndiGo", "Air India">>]],
        [key |-> s_manali, val |-> [price |-> 6000, duration |-> "1h 30m", airlines |-> <<"IndiGo", "SpiceJet">>]] >>],
    [key |-> s_mumbai, val |-> <<
        [key |-> s_goa, val |-> [price |-> 4500, duration |-> "1h 15m", airlines |-> <<"IndiGo", "GoAir">>]],
        [key |-> s_jaipur, val |-> [price |-> 5000, duration |-> "1h 45m", airlines |-> <<"IndiGo", "SpiceJet">>]],
        [key |-> s_udaipur, val |-> [price |-> 4800, duration |-> "1h 30m", airlines |-> <<"IndiGo", "Vistara">>]] >>] >>

\* itinerary_db: destination -> plan
itinerary_db == <<
    [key |-> s_jaipur, val |-> [duration |-> "3-4 days", attractions |-> <<
            "Amber Fort - Magnificent hilltop fort with elephant rides",
            "City Palace - Royal residence with museums and courtyards",
            "Hawa Mahal - Iconic Palace of Winds",
            "Jantar Mantar - UNESCO World Heritage astronomical observatory",
            "Nahargarh Fort - Sunset views over the Pink City",
            "Johari Bazaar - Shopping for jewelry and textiles" >>, activities |-> <<"Heritage walk", "Rajasthani folk dance show", "Camel safari">>]],
    [key |-> s_goa, val |-> [duration |-> "4-5 days", attractions |-> <<
            "Baga Beach - Water sports and nightlife",
            "Old Goa Churches - UNESCO World Heritage sites",
            "Dudhsagar Falls - Spectacular four-tiered waterfall",
            "Spice Plantations - Guided tours with traditional lunch",
            "Anjuna Flea Market - Shopping and local crafts",
            "Fort Aguada - Portuguese fort with lighthouse" >>, activities |-> <<"Beach hopping", "Water sports", "River cruise", "Casino visit">>]],
    [key |-> s_varanasi, val |-> [duration |-> "2-3 days", attractions |-> <<
            "Dashashwamedh Ghat - Evening Ganga Aarti ceremony",
            "Kashi Vishwanath Temple - Sacred Shiva temple",
            "Sarnath - Buddhist pilgrimage site",
            "Manikarnika Ghat - Sacred cremation ghat",
            "Banaras Hindu University - Sprawling campus and museum",
            "Ramnagar Fort - Mughal architecture" >>, activities |-> <<"Boat ride on Ganges", "Heritage walk", "Silk weaving tour">>]],
    [key |-> s_leh, val |-> [duration |-> "6-7 days", attractions |-> <<
            "Pangong Lake - Stunning high-altitude lake",
            "Nubra Valley - Sand dunes and double-humped camels",
            "Magnetic Hill - Gravity-defying phenomenon",
            "Thiksey Monastery - Beautiful Buddhist monastery",
            "Khardung La Pass - World's highest motorable road",
            "Leh Palace - Former royal palace with panoramic views" >>, activities |-> <<"Trekking", "River rafting", "Motorcycle tours", "Meditation">>]] >>

\* restaurant_db: destination -> listings
restaurant_db == <<
    [key |-> s_jaipur, val |-> <<
        [name |-> "Laxmi Misthan Bhandar", cuisine |-> "Rajasthani", price_range |-> "Rs200-400", specialty |-> "Dal Baati Churma"],
        [name |-> "Chokhi Dhani", cuisine |-> "Traditional Rajasthani", price_range |-> "Rs800-1200", specialty |-> "Village-style dining experience"],
        [name |-> "Rawat Mishtan Bhandar", cuisine |-> "Snacks & Sweets", price_range |-> "Rs100-300", specialty |-> "Pyaaz Kachori"],
        [name |-> "Spice Court", cuisine |-> "North Indian", price_range |-> "Rs400-800", specialty |-> "Rooftop dining"] >>],
    [key |-> s_goa, val |-> <<
        [name |-> "Fisherman's Wharf", cuisine |-> "Goan Seafood", price_range |-> "Rs600-1200", specialty |-> "Fish Curry Rice"],
        [name |-> "Vinayak Family Restaurant", cuisine |-> "Goan", price_range |-> "Rs300-600", specialty |-> "Authentic Goan thali"],
        [name |-> "Thalassa", cuisine |-> "Greek & Goan", price_range |-> "Rs800-1500", specialty |-> "Beachside dining"],
        [name |-> "Ritz Classic", cuisine |-> "Multi-cuisine", price_range |-> "Rs400-800", specialty |-> "Local Goan dishes"] >>],
    [key |-> s_varanasi, val |-> <<
        [name |-> "Kashi Chat Bhandar", cuisine |-> "Street Food", price_range |-> "Rs50-150", specialty |-> "Tamatar Chat"],
        [name |-> "Dolphin Restaurant", cuisine |-> "North Indian", price_range |-> "Rs200-500", specialty |-> "Vegetarian thali"],
        [name |-> "Ayyar's Cafe", cuisine |-> "South Indian", price_range |-> "Rs150-300", specialty |-> "Filter coffee and dosa"],
        [name |-> "Baati Chokha", cuisine |-> "Bihari", price_range |-> "Rs100-250", specialty |-> "Traditional Baati Chokha"] >>],
    [key |-> s_leh, val |-> <<
        [name |-> "The Tibetan Kitchen", cuisine |-> "Tibetan", price_range |-> "Rs300-600", specialty |-> "Momos and Thukpa"],
        [name |-> "Bon Appetit", cuisine |-> "Continental", price_range |-> "Rs400-800", specialty |-> "Wood-fired pizza"],
        [name |-> "Lamayuru Restaurant", cuisine |-> "Ladakhi", price_range |-> "Rs250-500", specialty |-> "Traditional Ladakhi cuisine"],
        [name |-> "German Bakery", cuisine |-> "Bakery & Cafe", price_range |-> "Rs200-400", specialty |-> "Fresh bread and pastries"] >>] >>

\* available_destinations of get_hotel_recommendations: destination -> hotels
available_destinations == <<
    [key |-> s_jaipur, val |-> <<
        "Hotel Heritage Inn - Affordable stay with traditional Rajasthani decor.",
        "Rambagh Palace - A luxurious palace hotel experience." >>],
    [key |-> s_varanasi, val |-> <<
        "Hotel Surya - Comfortable stay near the ghats.",
        "BrijRama Palace - Heritage hotel with Ganges views." >>],
    [key |-> s_amritsar, val |-> <<
        "Hotel City Park - Budget-friendly with proximity to Golden Temple.",
        "Taj Swarna - Modern luxury near key attractions." >>],
    [key |-> s_leh_ladakh, val |-> <<
        "The Grand Dragon Ladakh - Premium hotel with mountain views.",
        "Hotel Ladakh Palace - Cozy stay with local charm." >>],
    [key |-> s_goa, val |-> <<
        "Casa de Goa - Boutique hotel near the beach.",
        "Taj Exotica Resort & Spa - Luxury resort with private beach access." >>],
    [key |-> s_udaipur, val |-> <<
        "Hotel Lakend - Lakeside hotel with stunning views.",
        "The Leela Palace - Opulent stay with royal ambiance." >>] >>

(***************************************************************************)
(* The arguments the caller passes.  The caller follows the declared       *)
(* parameter types: budget is an int, names are strings, data is a dict.   *)
(***************************************************************************)
Budgets == {k * 10000 : k \in (-1)..MaxBudgetUnits}

DestinationTypes == {s_any, s_Beach}

\* destinations asked of the flight tool, and of the other lookups
FlightDestinations == {s_Goa, s_Jaipur_Rajasthan, s_Leh_Ladakh}

Destinations == {s_GOA_India, s_Leh_Ladakh}

DepartureCities == {s_Delhi, s_Mumbai, s_Pune}

Sections ==
    {"destinations", "flights", "itinerary", "restaurants", "user_preferences",
     "budget", "bogus"}

\* the dicts passed as data for a section: the empty dict, a dict of the
\* shape of the section's entries, and a dict whose value lacks the fields
\* the readers of the section index
Payloads(section) ==
    CASE section = "flights" ->
            { <<>>, << [key |-> s_goa, val |-> [note |-> "by train"]] >> }
      [] section = "itinerary" ->
            { <<>> }
      [] section = "restaurants" ->
            { <<>> }
      [] section = "destinations" ->
            { <<>>,
              << [key |-> s_Goa, val |-> [name |-> "Goa", description |-> "Beaches", estimated_cost |-> 25000]] >> }
      [] OTHER ->
            { << [key |-> <<"d", "i", "e", "t">>, val |-> [value |-> "vegetarian"]] >> }

(***************************************************************************)
(* The store (lines 8-15) and the return value of the last call.           *)
(***************************************************************************)
Init ==
    /\ trip_details =
           [budget |-> 0,
            destinations |-> PyList(<<>>),
            flights |-> <<>>,
            itinerary |-> <<>>,
            restaurants |-> <<>>,
            user_preferences |-> <<>>]
    /\ ret = [op |-> "none", status |-> "none"]
    /\ dest_called = FALSE
    /\ overwrote = FALSE

\* {"status": "error", "error_message": ...}
Error(op, message) ==
    [op |-> op, status |-> "error", error_message |-> message]

\* {"status": "success", "report": ...}
Success(op, report) ==
    [op |-> op, status |-> "success", report |-> report]

\* the error of the summary and of the export on a store without destinations
PreconditionError(op) ==
    Error(op, "No trip details available. Please search for destinations first.")

\* an exception leaving the function
Raised(op, exception) ==
    [op |-> op, status |-> "raised", exception |-> exception]

(***************************************************************************)
(* get_destination_recommendations                                         *)
(***************************************************************************)
\* the check written as budget < 0: a budget of 0 passes it
BudgetRejectedBelowZero(budget) == budget < 0

\* if budget <= 0
BudgetRejected(budget) == budget <= 0

\* the budget stored and the destinations of earlier calls dropped with it
StoreBudgetClearingDestinations(td, budget) ==
    [td EXCEPT !.budget = budget, !.destinations = PyList(<<>>)]

\* trip_details["budget"] = budget
StoreBudget(td, budget) == [td EXCEPT !.budget = budget]

\* the tiers cut with <=: 15000 falls in the low tier, 30000 in the medium
budget_category_inclusive(budget) ==
    IF budget <= 15000 THEN "budget_low"
    ELSE IF budget <= 30000 THEN "budget_medium"
    ELSE "budget_high"

\* the budget category
budget_category(budget) ==
    IF budget < 15000 THEN "budget_low"
    ELSE IF budget < 30000 THEN "budget_medium"
    ELSE "budget_high"

\* the entries of the tier, filtered by destination type
recommended_destinations(budget, destination_type) ==
    LET tier == destinations_db[budget_category(budget)]
        dest_type_key == lower(destination_type)
    IN  IF lower(destination_type) = s_any
        THEN Concat([i \in DOMAIN tier |-> tier[i].val])
        ELSE IF DictHas(tier, dest_type_key) THEN DictGet(tier, dest_type_key) ELSE <<>>

\* the entries within budget
affordable_destinations(budget, destination_type) ==
    LET InBudget(dest) == dest.estimated_cost <= budget
    IN  SelectSeq(recommended_destinations(budget, destination_type), InBudget)

\* trip_details["destinations"] = affordable_destinations
StoreDestinations(td, affordable) == [td EXCEPT !.destinations = PyList(affordable)]

get_destination_recommendations(budget, destination_type) ==
    LET op == "get_destination_recommendations"
        affordable == affordable_destinations(budget, destination_type)
    IN  /\ dest_called' = TRUE
        /\ overwrote' = FALSE
        /\ IF BudgetRejected(budget)
           THEN /\ ret' = Error(op, "Budget must be a positive number.")
                /\ UNCHANGED trip_details
           ELSE IF ~Truthy(affordable)
           THEN /\ ret' = Error(op, "No destinations found within budget")
                /\ trip_details' = StoreBudget(trip_details, budget)
           ELSE /\ ret' = Success(op, [budget |-> budget, destination_list |-> affordable])
                /\ trip_details' = StoreDestinations(StoreBudget(trip_details, budget), affordable)

(***************************************************************************)
(* get_flight_recommendations                                              *)
(***************************************************************************)
\* the flight stored and its cost taken off the stored budget
StoreFlightSpendingBudget(td, key, flight_info, remaining_budget) ==
    [td EXCEPT !.flights = DictSet(@, key, flight_info), !.budget = remaining_budget]

\* one record object shared by all entries: storing a flight rewrites the
\* records stored before
StoreFlightSharedRecord(td, key, flight_info, remaining_budget) ==
    [td EXCEPT !.flights =
        [i \in DOMAIN DictSet(@, key, flight_info) |->
            [key |-> DictSet(@, key, flight_info)[i].key, val |-> flight_info]]]

\* the flights map replaced by one holding the new flight alone
StoreFlightReplacingMap(td, key, flight_info, remaining_budget) ==
    [td EXCEPT !.flights = << [key |-> key, val |-> flight_info] >>]

\* trip_details["flights"][destination_key] = flight_info
StoreFlight(td, key, flight_info, remaining_budget) ==
    [td EXCEPT !.flights = DictSet(@, key, flight_info)]

\* the check written as remaining_budget <= 0: a flight that uses up the
\* budget exactly is refused
FlightTooExpensiveAtZero(remaining_budget) == remaining_budget <= 0

\* remaining_budget < 0
FlightTooExpensive(remaining_budget) == remaining_budget < 0

get_flight_recommendations(destination, departure_city) ==
    LET op == "get_flight_recommendations"
        departure_key == lower(departure_city)
        key == destination_key(destination)
    IN  /\ UNCHANGED dest_called
        /\ IF ~DictHas(flight_db, departure_key)
           THEN /\ ret' = Error(op, "Flight data not available")
                /\ UNCHANGED trip_details
           ELSE IF ~DictHas(DictGet(flight_db, departure_key), key)
           THEN /\ ret' = Error(op, "No direct flights found")
                /\ UNCHANGED trip_details
           ELSE LET flight_info == DictGet(DictGet(flight_db, departure_key), key)
                    remaining_budget == trip_details.budget - flight_info.price * 2
                IN  IF FlightTooExpensive(remaining_budget)
                    THEN /\ ret' = [op |-> op, status |-> "error",
                                    error_message |-> "Flight costs exceed your budget",
                                    round_trip |-> flight_info.price * 2]
                         /\ UNCHANGED trip_details
                    ELSE /\ ret' = Success(op,
                                       [price |-> flight_info.price,
                                        round_trip |-> flight_info.price * 2,
                                        duration |-> flight_info.duration,
                                        airlines |-> flight_info.airlines,
                                        remaining_budget |-> remaining_budget])
                         /\ trip_details' = StoreFlight(trip_details, key, flight_info, remaining_budget)
        /\ overwrote' = (ret'.status = "success" /\ DictHas(trip_details.flights, key))

(***************************************************************************)
(* get_itinerary_recommendations, get_restaurant_recommendations           *)
(***************************************************************************)
\* the plan appended to the entries whether or not the key is there
StoreItineraryAppending(td, key, itinerary) ==
    [td EXCEPT !.itinerary = Append(@, [key |-> key, val |-> itinerary])]

\* trip_details["itinerary"][destination_key] = itinerary
StoreItinerary(td, key, itinerary) ==
    [td EXCEPT !.itinerary = DictSet(@, key, itinerary)]

get_itinerary_recommendations(destination) ==
    LET op == "get_itinerary_recommendations"
        key  == destination_key(destination)
    IN  /\ UNCHANGED dest_called
        /\ IF ~DictHas(itinerary_db, key)
           THEN /\ ret' = Error(op, "Itinerary not available")
                /\ UNCHANGED trip_details
           ELSE LET itinerary == DictGet(itinerary_db, key)
                IN  /\ trip_details' = StoreItinerary(trip_details, key, itinerary)
                    /\ ret' = Success(op,
                                  [duration |-> itinerary.duration,
                                   attractions_list |-> itinerary.attractions,
                                   activities_list |-> itinerary.activities])
        /\ overwrote' = (ret'.status = "success" /\ DictHas(trip_details.itinerary, key))

\* trip_details["restaurants"][destination_key] = restaurants
StoreRestaurants(td, key, restaurants) ==
    [td EXCEPT !.restaurants = DictSet(@, key, restaurants)]

get_restaurant_recommendations(destination) ==
    LET op == "get_restaurant_recommendations"
        key  == destination_key(destination)
    IN  /\ UNCHANGED dest_called
        /\ IF ~DictHas(restaurant_db, key)
           THEN /\ ret' = Error(op, "Restaurant recommendations not available")
                /\ UNCHANGED trip_details
           ELSE LET restaurants == DictGet(restaurant_db, key)
                IN  /\ trip_details' = StoreRestaurants(trip_details, key, restaurants)
                    /\ ret' = Success(op, [restaurant_list |-> restaurants])
        /\ overwrote' = (ret'.status = "success" /\ DictHas(trip_details.restaurants, key))

(***************************************************************************)
(* get_hotel_recommendations: the destination is lower-cased only, the     *)
(* store is neither read nor written.                                      *)
(***************************************************************************)
get_hotel_recommendations(destination) ==
    LET op == "get_hotel_recommendations"
        key  == lower(destination)
    IN  /\ UNCHANGED <<trip_details, dest_called>>
        /\ IF DictHas(available_destinations, key)
           THEN ret' = Success(op,
                           [header |-> title(key), hotels |-> DictGet(available_destinations, key)])
           ELSE ret' = Error(op, "hotel recommendations are not available")
        /\ overwrote' = FALSE

(***************************************************************************)
(* update_trip_details                                                     *)
(***************************************************************************)
valid_sections == <<"destinations", "flights", "itinerary", "restaurants", "user_preferences">>

\* section not in valid_sections
SectionRejected(section) == \A i \in DOMAIN valid_sections : valid_sections[i] # section

\* trip_details[section] = data
StoreSection(td, section, data) ==
    [td EXCEPT ![section] = IF section = "destinations" THEN PyDict(data) ELSE data]

update_trip_details(section, data) ==
    LET op == "update_trip_details"
    IN  /\ UNCHANGED dest_called
        /\ IF SectionRejected(section)
           THEN /\ ret' = Error(op, "Invalid section.")
                /\ UNCHANGED trip_details
           ELSE /\ trip_details' = StoreSection(trip_details, section, data)
                /\ ret' = Success(op, section)
        /\ overwrote' = FALSE

(***************************************************************************)
(* get_trip_summary                                                        *)
(***************************************************************************)
\* the check made on the budget instead of the destinations
NoBudget(td) == td.budget = 0

\* not trip_details["destinations"]
NoDestinations(td) == ~Truthy(td.destinations.items)

\* the loops over destinations and flights index each element: iterating a
\* dict yields its keys, which are strings (TypeError on dest['name']); a
\* destination or flight without the indexed field is a KeyError
SummaryException(td) ==
    IF td.destinations.kind = "dict"
    THEN "TypeError"
    ELSE IF \E i \in DOMAIN td.destinations.items :
                {"name", "estimated_cost"} \ DOMAIN td.destinations.items[i] # {}
    THEN "KeyError"
    ELSE IF \E i \in DOMAIN td.flights : "price" \notin DOMAIN td.flights[i].val
    THEN "KeyError"
    ELSE "none"

\* summary_parts
summary_parts(td) ==
    << [part |-> "Budget", budget |-> td.budget] >>
    \o << [part |-> "Destinations", count |-> Len(td.destinations.items)] >>
    \o [i \in DOMAIN td.destinations.items |->
           [part |-> "destination",
            name |-> td.destinations.items[i].name,
            estimated_cost |-> td.destinations.items[i].estimated_cost]]
    \o (IF Truthy(td.flights)
        THEN << [part |-> "Flights"] >>
             \o [i \in DOMAIN td.flights |->
                    [part |-> "flight",
                     dest |-> title(td.flights[i].key),
                     round_trip |-> td.flights[i].val.price * 2]]
        ELSE <<>>)
    \o (IF Truthy(td.itinerary)
        THEN << [part |-> "Itineraries", count |-> Len(td.itinerary)] >>
        ELSE <<>>)
    \o (IF Truthy(td.restaurants)
        THEN << [part |-> "Restaurants", count |-> Len(td.restaurants)] >>
        ELSE <<>>)

get_trip_summary ==
    LET op == "get_trip_summary"
    IN  /\ UNCHANGED <<trip_details, dest_called>>
        /\ IF NoDestinations(trip_details)
           THEN ret' = PreconditionError(op)
           ELSE IF SummaryException(trip_details) # "none"
           THEN ret' = Raised(op, SummaryException(trip_details))
           ELSE ret' = Success(op, summary_parts(trip_details))
        /\ overwrote' = FALSE

(***************************************************************************)
(* generate_trip_pdf: after the check of destinations everything runs in a *)
(* try block whose handler returns an error record.  The document classes  *)
(* it names are not bound in the module, so the block may fail on any      *)
(* store; rendered says whether it ran to the end.                         *)
(***************************************************************************)
\* the fields the body indexes are all there
PdfReadable(td) ==
    /\ td.destinations.kind = "list"
    /\ \A i \in DOMAIN td.destinations.items :
           {"name", "description", "estimated_cost"} \subseteq DOMAIN td.destinations.items[i]
    /\ \A i \in DOMAIN td.flights :
           {"price", "duration"} \subseteq DOMAIN td.flights[i].val
    /\ \A i \in DOMAIN td.itinerary :
           {"duration", "attractions"} \subseteq DOMAIN td.itinerary[i].val
    /\ \A i \in DOMAIN td.restaurants :
           \A j \in DOMAIN td.restaurants[i].val :
               {"name", "cuisine", "price_range"} \subseteq DOMAIN td.restaurants[i].val[j]

generate_trip_pdf(filename, rendered) ==
    LET op == "generate_trip_pdf"
    IN  /\ UNCHANGED <<trip_details, dest_called>>
        /\ IF NoDestinations(trip_details)
           THEN ret' = PreconditionError(op)
           ELSE IF rendered /\ PdfReadable(trip_details)
           THEN ret' = Success(op, filename)
           ELSE ret' = Error(op, "Failed to generate PDF")
        /\ overwrote' = FALSE

(***************************************************************************)
(* The caller invokes one tool at a time.                                  *)
(***************************************************************************)
Next ==
    \/ \E budget \in Budgets, destination_type \in DestinationTypes :
           get_destination_recommendations(budget, destination_type)
    \/ \E destination \in FlightDestinations, departure_city \in DepartureCities :
           get_flight_recommendations(destination, departure_city)
    \/ \E destination \in Destinations : get_itinerary_recommendations(destination)
    \/ \E destination \in Destinations : get_restaurant_recommendations(destination)
    \/ \E destination \in Destinations : get_hotel_recommendations(destination)
    \/ \E section \in Sections : \E data \in Payloads(section) :
           update_trip_details(section, data)
    \/ get_trip_summary
    \/ \E rendered \in BOOLEAN : generate_trip_pdf("trip_plan.pdf", rendered)

Spec == Init /\ [][Next]_vars

(***************************************************************************)
(* The destination tool alone, over a grid of budgets that covers the      *)
(* three tiers and every destination type of the table.                    *)
(***************************************************************************)
DestinationBudgets == {k * 5000 : k \in (-1)..MaxBudgetSteps} \cup {14999, 29999}

AllDestinationTypes ==
    {s_any, s_Beach, s_beach, s_historical, s_hill_station, s_spiritual, s_adventure, s_desert}

NextDestination ==
    \E budget \in DestinationBudgets, destination_type \in AllDestinationTypes :
        get_destination_recommendations(budget, destination_type)

SpecDestination == Init /\ [][NextDestination]_vars

(***************************************************************************)
(* The itinerary and restaurant lookups over destinations written in       *)
(* several ways, next to the tool that replaces their sections.            *)
(***************************************************************************)
LookupDestinations ==
    {s_Goa, s_GOA_India, s_Jaipur_Rajasthan, s_jaipur, s_varanasi, s_Leh_Ladakh}

\* the dicts passed as data here: empty, and with a key as a caller writes it
LookupPayloads(section) ==
    IF section = "itinerary"
    THEN { <<>>, << [key |-> s_Goa, val |-> [note |-> "beach day"]] >> }
    ELSE { <<>>, << [key |-> s_Goa, val |-> << [name |-> "Cafe"] >>] >> }

NextLookups ==
    \/ \E destination \in LookupDestinations : get_itinerary_recommendations(destination)
    \/ \E destination \in LookupDestinations : get_restaurant_recommendations(destination)
    \/ \E section \in {"itinerary", "restaurants"} : \E data \in LookupPayloads(section) :
           update_trip_details(section, data)

SpecLookups == Init /\ [][NextLookups]_vars

(***************************************************************************)
(* The three lookups that store under a destination key, each asked with   *)
(* several spellings of a destination, next to the destination tool that   *)
(* sets the budget of the flights and the tool that replaces sections.     *)
(***************************************************************************)
KeyDestinations == {s_Goa, s_GOA_India, s_Jaipur_Rajasthan, s_jaipur}

\* the spellings asked of the itinerary tool, and of the restaurant tool
KeyItineraryDestinations == {s_Jaipur_Rajasthan, s_jaipur}

KeyRestaurantDestinations == {s_Goa, s_GOA_India}

KeyDepartureCities == {s_Delhi}

\* the dict passed as data here, with a key as a caller writes it
KeyPayloads(section) ==
    { << [key |-> s_Goa, val |-> [note |-> section]] >> }

NextKeys ==
    \/ \E budget \in Budgets : get_destination_recommendations(budget, s_any)
    \/ \E destination \in KeyDestinations, departure_city \in KeyDepartureCities :
           get_flight_recommendations(destination, departure_city)
    \/ \E destination \in KeyItineraryDestinations :
           get_itinerary_recommendations(destination)
    \/ \E destination \in KeyRestaurantDestinations :
           get_restaurant_recommendations(destination)
    \/ \E section \in {"flights", "itinerary"} : \E data \in KeyPayloads(section) :
           update_trip_details(section, data)

SpecKeys == Init /\ [][NextKeys]_vars

(***************************************************************************)
(* The six tools registered on root_agent (src/agent.py): the model that   *)
(* drives the agent can call these and no other function of the module.    *)
(***************************************************************************)
NextAgent ==
    \/ \E budget \in Budgets, destination_type \in DestinationTypes :
           get_destination_recommendations(budget, destination_type)
    \/ \E destination \in Destinations : get_hotel_recommendations(destination)
    \/ \E destination \in FlightDestinations, departure_city \in DepartureCities :
           get_flight_recommendations(destination, departure_city)
    \/ \E destination \in Destinations : get_itinerary_recommendations(destination)
    \/ \E destination \in Destinations : get_restaurant_recommendations(destination)
    \/ get_trip_summary

SpecAgent == Init /\ [][NextAgent]_vars

(***************************************************************************)
(* Properties.  A step is recognised as a call of a tool by ret'.op, the   *)
(* tool whose return value ret' is, and as a call with given arguments by  *)
(* the tool's action.                                                      *)
(***************************************************************************)
\* C1: whenever a call returns status "error", every field of trip_details
\* equals its value before the call.
C1_ErrorLeavesStoreUnchanged ==
    [][ret'.status = "error" => trip_details' = trip_details]_vars

\* C2: a destination call with budget <= 0 (any destination type) and an
\* update_trip_details call with a section outside the five valid ones
\* return an error and change no field of trip_details.
C2_InvalidArgumentsRejected ==
    [][/\ \A budget \in Budgets, destination_type \in DestinationTypes :
              (/\ budget <= 0
               /\ ret'.op = "get_destination_recommendations"
               /\ get_destination_recommendations(budget, destination_type))
                  => (ret'.status = "error" /\ trip_details' = trip_details)
       /\ \A section \in Sections : \A data \in Payloads(section) :
              (/\ section \notin {"destinations", "flights", "itinerary",
                                  "restaurants", "user_preferences"}
               /\ ret'.op = "update_trip_details"
               /\ update_trip_details(section, data))
                  => (ret'.status = "error" /\ trip_details' = trip_details)]_vars

\* a non-positive budget was rejected on a store that holds a budget,
\* destinations and a flight
C2_Witness ==
    /\ ret = Error("get_destination_recommendations", "Budget must be a positive number.")
    /\ trip_details.budget > 0
    /\ Truthy(trip_details.destinations.items)
    /\ Truthy(trip_details.flights)

\* C5: trip_details.budget changes only in a step that is a
\* get_destination_recommendations call.
C5_BudgetSetOnlyByDestinationCall ==
    [][trip_details'.budget # trip_details.budget
           => ret'.op = "get_destination_recommendations"]_vars

\* a flight was found affordable, its round trip costing part of the
\* budget, and the stored budget is the one the destination call set
C5_Witness ==
    /\ ret.op = "get_flight_recommendations"
    /\ ret.status = "success"
    /\ ret.report.round_trip > 0
    /\ trip_details.budget = ret.report.remaining_budget + ret.report.round_trip

\* C6 as stated: a key present in flights, itinerary or restaurants is
\* present in every later state.
C6_KeysNeverRemoved ==
    [][/\ DictKeys(trip_details.flights) \subseteq DictKeys(trip_details'.flights)
       /\ DictKeys(trip_details.itinerary) \subseteq DictKeys(trip_details'.itinerary)
       /\ DictKeys(trip_details.restaurants) \subseteq DictKeys(trip_details'.restaurants)]_vars

\* C6 amended: a key leaves flights, itinerary or restaurants only in a
\* successful update_trip_details call on that section; every other step
\* keeps the keys of the three maps.
C6_KeysRemovedOnlyByUpdate ==
    [][\A section \in {"flights", "itinerary", "restaurants"} :
           ~(DictKeys(trip_details[section]) \subseteq DictKeys(trip_details'[section]))
               => ret' = Success("update_trip_details", section)]_vars

\* a second flight was stored next to the first
C6_Witness ==
    /\ ret.op = "get_flight_recommendations"
    /\ ret.status = "success"
    /\ Cardinality(DictKeys(trip_details.flights)) = 2
    /\ Truthy(trip_details.itinerary)

\* C10: every call returns a record whose status is "success" or "error";
\* none raises.
C10_NoOperationRaises ==
    ret.op # "none" => ret.status \in {"success", "error"}

\* the entries of the tier of the budget, as <<category index, entry index>>
C3_Tier(budget) ==
    IF budget < 15000 THEN destinations_db.budget_low
    ELSE IF budget >= 30000 THEN destinations_db.budget_high
    ELSE destinations_db.budget_medium

\* the entries of the tier that match the type and cost at most the budget
C3_Selected(budget, destination_type) ==
    LET tier == C3_Tier(budget)
    IN  {p \in UNION {{<<c, e>> : e \in DOMAIN tier[c].val} : c \in DOMAIN tier} :
            /\ lower(destination_type) = s_any \/ tier[p[1]].key = lower(destination_type)
            /\ tier[p[1]].val[p[2]].estimated_cost <= budget}

\* table order: by category as declared, then by entry
C3_Before(p, q) == p[1] < q[1] \/ (p[1] = q[1] /\ p[2] < q[2])

\* the selected entries in table order
C3_Expected(budget, destination_type) ==
    LET selected == C3_Selected(budget, destination_type)
        tier == C3_Tier(budget)
    IN  [i \in 1..Cardinality(selected) |->
            LET p == CHOOSE p \in selected :
                         Cardinality({q \in selected : C3_Before(q, p)}) = i - 1
            IN  tier[p[1]].val[p[2]]]

C4_FlightWithinBudget ==
    [][\A destination \in FlightDestinations, departure_city \in DepartureCities :
           (/\ ret'.op = "get_flight_recommendations"
            /\ get_flight_recommendations(destination, departure_city))
               => LET key == destination_key(destination)
                      reachable ==
                          /\ DictHas(flight_db, lower(departure_city))
                          /\ DictHas(DictGet(flight_db, lower(departure_city)), key)
                      flight == DictGet(DictGet(flight_db, lower(departure_city)), key)
                  IN  /\ ret'.status = "success"
                            <=> (reachable /\ trip_details.budget - 2 * flight.price >= 0)
                      /\ ret'.status = "success" =>
                            /\ DictHas(trip_details'.flights, key)
                            /\ DictGet(trip_details'.flights, key) = flight
                            /\ ret'.report.remaining_budget = trip_details.budget - 2 * flight.price
                      /\ ret'.status # "success" =>
                            trip_details'.flights = trip_details.flights
                      /\ (destination = s_Goa /\ departure_city = s_Delhi) =>
                            /\ trip_details.budget = 20000 =>
                                  (ret'.status = "success" /\ ret'.report.remaining_budget = 4000)
                            /\ trip_details.budget = 10000 =>
                                  (ret'.status = "error" /\ ret'.round_trip = 16000)]_vars

\* Delhi to Goa was found on a budget of 20000, over an earlier entry for goa
C4_Witness ==
    /\ ret.op = "get_flight_recommendations"
    /\ ret.status = "success"
    /\ ret.report.price = 8000
    /\ ret.report.remaining_budget = 4000
    /\ trip_details.budget = 20000
    /\ overwrote

\* C7: a successful flight call adds its key to the keys of flights, maps it
\* to the record of its lookup and leaves the record of every other key as
\* it was; so two successful calls for distinct keys, starting from the
\* empty map, leave exactly the two keys, each with its own record.
C7_FlightsAccumulate ==
    [][\A destination \in FlightDestinations, departure_city \in DepartureCities :
           (/\ ret'.op = "get_flight_recommendations"
            /\ ret'.status = "success"
            /\ get_flight_recommendations(destination, departure_city))
               => LET key == destination_key(destination)
                      before == trip_details.flights
                      after == trip_details'.flights
                  IN  /\ DictKeys(after) = DictKeys(before) \cup {key}
                      /\ Len(after) = Cardinality(DictKeys(after))
                      /\ DictGet(after, key) =
                             DictGet(DictGet(flight_db, lower(departure_city)), key)
                      /\ \A other \in DictKeys(before) \ {key} :
                             DictGet(after, other) = DictGet(before, other)
                      /\ before = <<>> => Len(after) = 1]_vars

\* the second of two flights with distinct keys and distinct records was
\* stored into a map that held the first alone
C7_Witness ==
    /\ ret.op = "get_flight_recommendations"
    /\ ret.status = "success"
    /\ ~overwrote
    /\ Len(trip_details.flights) = 2
    /\ DictKeys(trip_details.flights) = {s_goa, s_jaipur}
    /\ DictGet(trip_details.flights, s_goa) = DictGet(DictGet(flight_db, s_mumbai), s_goa)
    /\ DictGet(trip_details.flights, s_jaipur) = DictGet(DictGet(flight_db, s_delhi), s_jaipur)

\* the number of entries of a dict under a key
C8_Count(d, k) == Cardinality({i \in DOMAIN d : d[i].key = k})

\* C8: a successful itinerary (restaurant) call for a key that is already
\* stored leaves the key stored once, mapped to exactly the data of this
\* call; when the key held the data of an earlier call for the same
\* destination, the store after the call is the store before it.
C8_LookupOverwrites ==
    [][\A destination \in LookupDestinations :
           LET key == destination_key(destination)
           IN  /\ (/\ ret'.op = "get_itinerary_recommendations"
                   /\ ret'.status = "success"
                   /\ get_itinerary_recommendations(destination)
                   /\ DictHas(trip_details.itinerary, key))
                      => /\ C8_Count(trip_details'.itinerary, key) = 1
                         /\ DictGet(trip_details'.itinerary, key) = DictGet(itinerary_db, key)
                         /\ DictGet(trip_details.itinerary, key) = DictGet(itinerary_db, key)
                                => trip_details' = trip_details
               /\ (/\ ret'.op = "get_restaurant_recommendations"
                   /\ ret'.status = "success"
                   /\ get_restaurant_recommendations(destination)
                   /\ DictHas(trip_details.restaurants, key))
                      => /\ C8_Count(trip_details'.restaurants, key) = 1
                         /\ DictGet(trip_details'.restaurants, key) = DictGet(restaurant_db, key)
                         /\ DictGet(trip_details.restaurants, key) = DictGet(restaurant_db, key)
                                => trip_details' = trip_details]_vars

\* the itinerary of a destination was asked for again, with other
\* itineraries stored after it
C8_Witness ==
    /\ ret.op = "get_itinerary_recommendations"
    /\ ret.status = "success"
    /\ overwrote
    /\ Len(trip_details.itinerary) >= 2
    /\ trip_details.itinerary[1].val.duration = ret.report.duration

C11_Segment(destination) ==
    LET commas == {i \in DOMAIN destination : destination[i] = ","}
        last == IF commas = {}
                THEN Len(destination)
                ELSE (CHOOSE i \in commas : \A j \in commas : i <= j) - 1
        kept == {i \in 1..last : destination[i] \notin Whitespace}
        lo == CHOOSE i \in kept : \A j \in kept : i <= j
        hi == CHOOSE i \in kept : \A j \in kept : j <= i
    IN  IF kept = {}
        THEN <<>>
        ELSE [i \in 1..(hi - lo + 1) |-> LowerChar(destination[lo + i - 1])]

\* a key is normalized when it is its own segment
C11_Normalized(key) == C11_Segment(key) = key

\* the keys a step adds to a section
C11_Added(section) == DictKeys(trip_details'[section]) \ DictKeys(trip_details[section])

\* C11 as stated: in every reachable state every key of flights, itinerary
\* and restaurants is a normalized key.
C11_KeysNormalized ==
    \A section \in {"flights", "itinerary", "restaurants"} :
        \A key \in DictKeys(trip_details[section]) : C11_Normalized(key)

\* C11 amended: a flight, itinerary or restaurant call is, for every
\* destination string with the same lowercase, trimmed, pre-first-comma
\* segment, the same step (same status, same content returned, same store
\* afterwards); when it succeeds it stores under that segment; and a step
\* adds a key that is not normalized to one of the three maps only as a
\* successful update_trip_details call on that section.
C11_LookupKeysNormalized ==
    [][/\ ret'.op = "get_flight_recommendations" =>
              \A d1 \in KeyDestinations, departure_city \in KeyDepartureCities :
                  get_flight_recommendations(d1, departure_city) =>
                      /\ \A d2 \in KeyDestinations :
                             C11_Segment(d2) = C11_Segment(d1)
                                 => get_flight_recommendations(d2, departure_city)
                      /\ C11_Added("flights") \subseteq {C11_Segment(d1)}
                      /\ ret'.status = "success"
                             => DictHas(trip_details'.flights, C11_Segment(d1))
       /\ ret'.op = "get_itinerary_recommendations" =>
              \A d1 \in KeyItineraryDestinations :
                  get_itinerary_recommendations(d1) =>
                      /\ \A d2 \in KeyItineraryDestinations :
                             C11_Segment(d2) = C11_Segment(d1)
                                 => get_itinerary_recommendations(d2)
                      /\ C11_Added("itinerary") \subseteq {C11_Segment(d1)}
                      /\ ret'.status = "success"
                             => DictHas(trip_details'.itinerary, C11_Segment(d1))
       /\ ret'.op = "get_restaurant_recommendations" =>
              \A d1 \in KeyRestaurantDestinations :
                  get_restaurant_recommendations(d1) =>
                      /\ \A d2 \in KeyRestaurantDestinations :
                             C11_Segment(d2) = C11_Segment(d1)
                                 => get_restaurant_recommendations(d2)
                      /\ C11_Added("restaurants") \subseteq {C11_Segment(d1)}
                      /\ ret'.status = "success"
                             => DictHas(trip_details'.restaurants, C11_Segment(d1))
       /\ \A section \in {"flights", "itinerary", "restaurants"} :
              (/\ trip_details'[section] # trip_details[section]
               /\ \E key \in C11_Added(section) : ~C11_Normalized(key))
                  => ret' = Success("update_trip_details", section)]_vars

\* the restaurants of goa, asked for here only as "Goa" or " GOA ,India",
\* were stored and then hit again, next to the itinerary of jaipur and a
\* flight to goa, with every key of the three maps normalized
C11_Witness ==
    /\ ret.op = "get_restaurant_recommendations"
    /\ ret.status = "success"
    /\ overwrote
    /\ DictKeys(trip_details.restaurants) = {s_goa}
    /\ DictHas(trip_details.itinerary, s_jaipur)
    /\ DictHas(trip_details.flights, s_goa)
    /\ C11_KeysNormalized

\* C12: in every reachable state every record of the list
\* trip_details.destinations costs at most trip_details.budget (the stored
\* budget and the stored list come from the same destination call).
C12_DestinationsWithinStoredBudget ==
    trip_details.destinations.kind = "list" =>
        \A i \in DOMAIN trip_details.destinations.items :
            trip_details.destinations.items[i].estimated_cost <= trip_details.budget

\* C13: under the six tools of root_agent, once trip_details.destinations
\* is non-empty it is non-empty in every later state, and once
\* get_trip_summary has returned success every later call of it returns
\* success.
C13_SummaryStaysAvailable ==
    /\ [](Truthy(trip_details.destinations.items)
             => [](Truthy(trip_details.destinations.items)))
    /\ []((ret.op = "get_trip_summary" /\ ret.status = "success")
             => [](ret.op = "get_trip_summary" => ret.status = "success"))

\* the summary was returned over the six destinations a search with 10000
\* stored, after a later search with 20000 failed and after a flight was
\* stored
C13_Witness ==
    /\ ret.op = "get_trip_summary"
    /\ ret.status = "success"
    /\ trip_details.budget = 20000
    /\ Len(trip_details.destinations.items) = 6
    /\ Truthy(trip_details.flights)

\* C14: when a destination call with budget b > 0 has returned success, a
\* call for the same destination type with a budget b' >= b returns
\* success too.
C14_RaisingBudgetKeepsSuccess ==
    [][\A budget \in DestinationBudgets, destination_type \in AllDestinationTypes :
           (/\ ret.op = "get_destination_recommendations"
            /\ ret.status = "success"
            /\ ret'.op = "get_destination_recommendations"
            /\ 0 < ret.report.budget
            /\ ret.report.budget <= budget
            /\ affordable_destinations(ret.report.budget, destination_type)
                   = ret.report.destination_list
            /\ get_destination_recommendations(budget, destination_type))
               => ret'.status = "success"]_vars

====
